---- MODULE Spec2Model ----
(***************************************************************************)
(* generate_icon.py: allocate a 1024x1024 RGB canvas, stroke the chevron   *)
(* polyline, patch the three vertices with filled circles, save            *)
(* AppIcon.png and print a confirmation line.                              *)
(*                                                                         *)
(* The raster is followed at one pixel, `probe`, fixed for a behaviour and *)
(* drawn from Probes; a property of "every pixel" is the invariant over    *)
(* every choice of the probe.  The imaging library's rasteriser is not     *)
(* part of the script: a primitive certainly paints the pixels deeper than *)
(* Margin inside its outline, certainly leaves alone the pixels farther    *)
(* than Margin outside it, and what it does in between is a choice made    *)
(* once per behaviour (`hit`), so that the rasteriser is a function: the   *)
(* same call paints the same pixels on every run.                          *)
(***************************************************************************)
EXTENDS Integers, Sequences, FiniteSets

VARIABLES
    pc,       \* the statement the current invocation executes next
    run,      \* number of the current invocation, 1..MaxRuns
    probe,    \* <<x, y>>: the pixel that is followed
    hit,      \* hit[k]: whether primitive k's rasterisation covers the probe
    img,      \* the canvas: NoImage, or [w, h, px] with px the probe's colour
    painted,  \* the primitives that covered the probe in this invocation
    fs,       \* the working directory: file name -> content, or Absent
    fs0,      \* the working directory when the current invocation started
    env,      \* what the filesystem does to this invocation's write
    out,      \* out[i]: the lines invocation i printed
    trace,    \* trace[i]: the statements invocation i completed, in order
    written   \* written[i]: what invocation i's save put on disk, or Absent

vars == <<pc, run, probe, hit, img, painted, fs, fs0, env, out, trace, written>>

----------------------------------------------------------------------------
(* Bounds of the model *)

\* invocations of the program in one behaviour
MaxRuns == 2
\* distance, in pixels, between the probes of the coarse grid
ProbeStep == 40
\* grid steps by which the probes reach beyond the canvas on each side
Pad == 1
\* width, in pixels, of the band on each side of a primitive's outline in
\* which the rasteriser's choice is not known
Margin == 2
\* circle-drawing calls the commutation check applies
MaxDraws == 4

----------------------------------------------------------------------------
(* The constants of the script *)

\* a canvas that is not square
size_Wrong == <<1024, 512>>
size == <<1024, 1024>>
bg_color == <<30, 32, 35>>
accent_color == <<80, 220, 100>>
line_width == 140
\* the bottom-left point 180 pixels too far left
points_Edge == << <<20, 650>>, <<512, 280>>, <<824, 650>> >>
points == << <<200, 650>>, <<512, 280>>, <<824, 650>> >>
joint == "curve"
r == line_width \div 2
OutputName == "AppIcon.png"
Message == "Generated 'Chevron Up' icon."

\* the bounding boxes of the three ellipse calls, in the order of the calls
EllipseBox1 == <<200 - r, 650 - r, 200 + r, 650 + r>>
\* the second circle with two digits of its centre swapped
EllipseBox2_Typo == <<842 - r, 650 - r, 842 + r, 650 + r>>
EllipseBox2 == <<824 - r, 650 - r, 824 + r, 650 + r>>
EllipseBox3 == <<512 - r, 280 - r, 512 + r, 280 + r>>

EllipseBox(k) ==
    CASE k = 1 -> EllipseBox1
      [] k = 2 -> EllipseBox2
      [] k = 3 -> EllipseBox3

----------------------------------------------------------------------------
(* Geometry of the drawing primitives *)

Abs(n) == IF n < 0 THEN -n ELSE n

InCanvas(sz, p) == p[1] >= 0 /\ p[1] < sz[1] /\ p[2] >= 0 /\ p[2] < sz[2]

\* p lies in the ellipse inscribed in box grown by m pixels on every side.
\* Coordinates are doubled so that the centre of the box is an integer.
InEllipse(box, p, m) ==
    LET A == (box[3] - box[1]) + 2 * m
        B == (box[4] - box[2]) + 2 * m
        X == 2 * p[1] - (box[1] + box[3])
        Y == 2 * p[2] - (box[2] + box[4])
    IN  /\ A >= 0 /\ B >= 0
        /\ Abs(X) <= A /\ Abs(Y) <= B
        /\ X * X * B * B + Y * Y * A * A <= A * A * B * B

\* p is within distance d of the segment from a to b.
NearSegment(a, b, p, d) ==
    LET dx == b[1] - a[1]
        dy == b[2] - a[2]
        vx == p[1] - a[1]
        vy == p[2] - a[2]
        t  == vx * dx + vy * dy
        L2 == dx * dx + dy * dy
        c  == vx * dy - vy * dx
    IN  /\ d >= 0
        /\ IF t <= 0 THEN vx * vx + vy * vy <= d * d
           ELSE IF t >= L2
                THEN (p[1] - b[1]) * (p[1] - b[1]) + (p[2] - b[2]) * (p[2] - b[2]) <= d * d
                ELSE Abs(c) <= 46340 /\ c * c <= d * d * L2

\* p is within distance d of the segment's axis and projects onto the segment
\* at least m pixels away from both of its ends: the body of a stroke whatever
\* the caps of the line primitive are.
InStrokeBody(a, b, p, d, m) ==
    LET dx == b[1] - a[1]
        dy == b[2] - a[2]
        vx == p[1] - a[1]
        vy == p[2] - a[2]
        t  == vx * dx + vy * dy
        L2 == dx * dx + dy * dy
        c  == vx * dy - vy * dx
        e  == m * (Abs(dx) + Abs(dy))
    IN  /\ d >= 0
        /\ t >= e /\ t <= L2 - e
        /\ Abs(c) <= 46340 /\ c * c <= d * d * L2

\* the disc of radius d about vertex v
InDisc(v, p, d) ==
    d >= 0 /\ (p[1] - v[1]) * (p[1] - v[1]) + (p[2] - v[2]) * (p[2] - v[2]) <= d * d

Segments(xy) == 1 .. (Len(xy) - 1)
Joints(xy) == 2 .. (Len(xy) - 1)

\* draw.line(xy, width=w, joint=j) certainly covers p
LineMust(xy, w, j, p) ==
    \/ \E i \in Segments(xy) :
          InStrokeBody(xy[i], xy[i + 1], p, (w \div 2) - Margin, Margin)
    \/ /\ j = "curve"
       /\ \E i \in Joints(xy) : InDisc(xy[i], p, (w \div 2) - Margin)

\* draw.line(xy, width=w, joint=j) may cover p
LineMay(xy, w, j, p) ==
    \E i \in Segments(xy) : NearSegment(xy[i], xy[i + 1], p, (w \div 2) + Margin)

EllipseMust(box, p) == InEllipse(box, p, -Margin)
EllipseMay(box, p) == InEllipse(box, p, Margin)

----------------------------------------------------------------------------
(* Values *)

\* the colour of a pixel that is not on the canvas
Off == <<>>
NoImage == [w |-> 0, h |-> 0, px |-> Off]

\* contents of a file
Absent == <<>>
Stale == <<"other">>
Truncated == <<"PNG">>

FileNames == {OutputName, "Other.png"}
Envs == {"ok", "readonly", "full"}
Prims == 0 .. 3
Runs == 1 .. MaxRuns

----------------------------------------------------------------------------
(* The pixels that are followed *)

Grid(n) == {k * ProbeStep : k \in (-Pad) .. (((n - 1) \div ProbeStep) + Pad)}

\* the coordinates at which a line through a vertex crosses the outline of
\* the stroke, one pixel before the band of unknown choice, in it, and after
Around(c) ==
    {c} \cup {c + s * d : s \in {-1, 1},
                          d \in {r - Margin - 1, r, r + Margin + 1}}

ProbeXs == Grid(size[1]) \cup UNION {Around(points[i][1]) : i \in 1 .. Len(points)}
ProbeYs == Grid(size[2]) \cup UNION {Around(points[i][2]) : i \in 1 .. Len(points)}
Probes == ProbeXs \X ProbeYs

\* what primitive k certainly covers and may cover: 0 is the polyline, 1..3
\* the ellipses in the order of the calls
Must(k, p) ==
    IF k = 0 THEN LineMust(points, line_width, joint, p)
             ELSE EllipseMust(EllipseBox(k), p)
May(k, p) ==
    IF k = 0 THEN LineMay(points, line_width, joint, p)
             ELSE EllipseMay(EllipseBox(k), p)

\* the rasterisations of the four calls at pixel p
Rasterisations(p) ==
    {h \in [Prims -> BOOLEAN] :
        \A k \in Prims : (Must(k, p) => h[k]) /\ (h[k] => May(k, p))}

----------------------------------------------------------------------------
(* The operations of the imaging library, at the probe *)

\* Image.new('RGB', sz, color=color)
Image_new(sz, color) ==
    [w |-> sz[1], h |-> sz[2],
     px |-> IF InCanvas(sz, probe) THEN color ELSE Off]

\* a fill that inverts instead of overwriting
Paint_Toggle(im, k, fill) ==
    IF hit[k] /\ InCanvas(<<im.w, im.h>>, probe)
    THEN [im EXCEPT !.px = IF @ = fill THEN bg_color ELSE fill]
    ELSE im

\* a fill of primitive k: the pixels it covers that are on the canvas
Paint(im, k, fill) ==
    IF hit[k] /\ InCanvas(<<im.w, im.h>>, probe)
    THEN [im EXCEPT !.px = fill]
    ELSE im

\* draw.line(points, fill=accent_color, width=line_width, joint="curve")
draw_line(im) == Paint(im, 0, accent_color)

\* the circles filled with the background colour
draw_ellipse_bg(im, k) == Paint(im, k, bg_color)

\* draw.ellipse(EllipseBox(k), fill=accent_color)
draw_ellipse(im, k) == Paint(im, k, accent_color)

\* an encoding that stamps the file with the invocation
Encode_Stamped(im) == <<"PNG", im.w, im.h, im.px, run>>

\* the PNG encoding is lossless: the file holds the size and the pixels
Encode(im) == <<"PNG", im.w, im.h, im.px>>

Covered(k) == IF hit[k] THEN {k} ELSE {}

Log(name) == [trace EXCEPT ![run] = Append(@, name)]

----------------------------------------------------------------------------
(* The program *)

Init ==
    /\ pc = "new"
    /\ run = 1
    /\ probe \in Probes
    /\ hit \in Rasterisations(probe)
    /\ img = NoImage
    /\ painted = {}
    /\ fs0 \in [FileNames -> {Absent, Stale}]
    /\ fs0["Other.png"] = Stale
    /\ fs = fs0
    /\ env \in Envs
    /\ out = [i \in Runs |-> <<>>]
    /\ trace = [i \in Runs |-> <<>>]
    /\ written = [i \in Runs |-> Absent]

\* img = Image.new('RGB', size, color=bg_color); draw = ImageDraw.Draw(img)
NewImage ==
    /\ pc = "new"
    /\ img' = Image_new(size, bg_color)
    /\ trace' = Log("new")
    /\ pc' = "line"
    /\ UNCHANGED <<run, probe, hit, painted, fs, fs0, env, out, written>>

\* draw.line([...], fill=accent_color, width=line_width, joint="curve")
DrawLine ==
    /\ pc = "line"
    /\ img' = draw_line(img)
    /\ painted' = painted \cup Covered(0)
    /\ trace' = Log("line")
    /\ pc' = "ellipse1"
    /\ UNCHANGED <<run, probe, hit, fs, fs0, env, out, written>>

\* the program without its third circle call
EllipsePc_Skip(k) ==
    CASE k = 1 -> "ellipse1"
      [] k = 2 -> "ellipse2"
      [] OTHER -> "save"

EllipsePc(k) ==
    CASE k = 1 -> "ellipse1"
      [] k = 2 -> "ellipse2"
      [] k = 3 -> "ellipse3"
      [] OTHER -> "save"

\* draw.ellipse((cx-r, cy-r, cx+r, cy+r), fill=accent_color), the k-th call
DrawEllipse(k) ==
    /\ pc = EllipsePc(k)
    /\ img' = draw_ellipse(img, k)
    /\ painted' = painted \cup Covered(k)
    /\ trace' = Log("ellipse")
    /\ pc' = EllipsePc(k + 1)
    /\ UNCHANGED <<run, probe, hit, fs, fs0, env, out, written>>

\* img.save("AppIcon.png") where the file can be created and written
SaveOk ==
    /\ pc = "save"
    /\ env = "ok"
    /\ fs' = [fs EXCEPT ![OutputName] = Encode(img)]
    /\ written' = [written EXCEPT ![run] = Encode(img)]
    /\ trace' = Log("save")
    /\ pc' = "print"
    /\ UNCHANGED <<run, probe, hit, img, painted, fs0, env, out>>

\* the failure of the write caught and ignored
SaveNotWritable_Swallow ==
    /\ pc = "save"
    /\ env = "readonly"
    /\ trace' = Log("save failed")
    /\ pc' = "print"
    /\ UNCHANGED <<run, probe, hit, img, painted, fs, fs0, env, out, written>>

\* img.save("AppIcon.png") where the path is not writable: opening the file
\* raises, nothing is written, the exception ends the program
SaveNotWritable ==
    /\ pc = "save"
    /\ env = "readonly"
    /\ trace' = Log("save failed")
    /\ pc' = "error"
    /\ UNCHANGED <<run, probe, hit, img, painted, fs, fs0, env, out, written>>

\* img.save("AppIcon.png") where the file is opened and the write fails (the
\* disk is full): the file is left truncated or removed
SaveDiskFull ==
    /\ pc = "save"
    /\ env = "full"
    /\ \E left \in {Absent, Truncated} : fs' = [fs EXCEPT ![OutputName] = left]
    /\ trace' = Log("save failed")
    /\ pc' = "error"
    /\ UNCHANGED <<run, probe, hit, img, painted, fs0, env, out, written>>

Save == SaveOk \/ SaveNotWritable \/ SaveDiskFull

\* the confirmation printed twice
PrintLine_Twice ==
    /\ pc = "print"
    /\ out' = [out EXCEPT ![run] = Append(Append(@, Message), Message)]
    /\ trace' = Log("print")
    /\ pc' = "done"
    /\ UNCHANGED <<run, probe, hit, img, painted, fs, fs0, env, written>>

\* print("Generated 'Chevron Up' icon.")
PrintLine ==
    /\ pc = "print"
    /\ out' = [out EXCEPT ![run] = Append(@, Message)]
    /\ trace' = Log("print")
    /\ pc' = "done"
    /\ UNCHANGED <<run, probe, hit, img, painted, fs, fs0, env, written>>

\* the program is run again in the same directory
Rerun ==
    /\ pc \in {"done", "error"}
    /\ run < MaxRuns
    /\ run' = run + 1
    /\ pc' = "new"
    /\ img' = NoImage
    /\ painted' = {}
    /\ env' \in Envs
    /\ fs0' = fs
    /\ UNCHANGED <<probe, hit, fs, out, trace, written>>

Next ==
    \/ NewImage
    \/ DrawLine
    \/ \E k \in 1 .. 3 : DrawEllipse(k)
    \/ Save
    \/ PrintLine
    \/ Rerun

Spec == Init /\ [][Next]_vars

----------------------------------------------------------------------------
(* The three circle calls applied in any order, any number of times, to the
   canvas the polyline call leaves *)

InitCircles ==
    /\ pc = "circles"
    /\ run = 1
    /\ probe \in Probes
    /\ hit \in Rasterisations(probe)
    /\ img = draw_line(Image_new(size, bg_color))
    /\ painted = Covered(0)
    /\ fs0 = [n \in FileNames |-> Absent]
    /\ fs = fs0
    /\ env = "ok"
    /\ out = [i \in Runs |-> <<>>]
    /\ trace = [i \in Runs |-> <<>>]
    /\ written = [i \in Runs |-> Absent]

AnyEllipse(k) ==
    /\ pc = "circles"
    /\ Len(trace[run]) < MaxDraws
    /\ img' = draw_ellipse(img, k)
    /\ painted' = painted \cup Covered(k)
    /\ trace' = Log(k)
    /\ UNCHANGED <<pc, run, probe, hit, fs, fs0, env, out, written>>

NextCircles == \E k \in 1 .. 3 : AnyEllipse(k)

SpecCircles == InitCircles /\ [][NextCircles]_vars

----------------------------------------------------------------------------
(* Properties *)

Count(t, S) == Cardinality({j \in 1 .. Len(t) : t[j] \in S})
Before(t, j) == SubSeq(t, 1, j - 1)
Present(dir) == {n \in FileNames : dir[n] # Absent}
Finished == pc \in {"save", "print", "done", "error"}

\* C1: in every invocation no drawing call completes before the canvas is
\* allocated, the polyline comes before the circles, the save is attempted
\* only after the polyline call and the three circle calls have completed,
\* and the confirmation is printed only after the save has succeeded.
C1_FixedOrder ==
    /\ \A i \in Runs : \A j \in 1 .. Len(trace[i]) :
          LET t == trace[i] IN
          /\ t[j] \in {"line", "ellipse"} => Count(Before(t, j), {"new"}) = 1
          /\ t[j] = "line" => Count(Before(t, j), {"ellipse"}) = 0
          /\ t[j] \in {"save", "save failed"} =>
                /\ Count(Before(t, j), {"line"}) = 1
                /\ Count(Before(t, j), {"ellipse"}) = 3
          /\ t[j] = "print" => Count(Before(t, j), {"save"}) = 1
    /\ \A i \in Runs : out[i] # <<>> => Count(trace[i], {"save"}) = 1
    /\ pc \in {"line", "ellipse1", "ellipse2", "ellipse3", "save"} => img # NoImage

C1_Witness ==
    /\ pc = "done"
    /\ trace[run] = <<"new", "line", "ellipse", "ellipse", "ellipse", "save", "print">>

\* C2: when the write fails the invocation ends in the error state right
\* after that one attempt, having printed nothing; and when it fails because
\* the path is not writable, the run has put nothing on disk: the directory
\* is as the invocation found it.
C2_WriteFailure ==
    /\ \A i \in Runs :
          Count(trace[i], {"save failed"}) > 0 =>
             /\ Count(trace[i], {"save", "save failed"}) = 1
             /\ trace[i][Len(trace[i])] = "save failed"
             /\ out[i] = <<>>
             /\ written[i] = Absent
             /\ i = run => pc = "error"
    /\ pc = "error" => Count(trace[run], {"save failed"}) = 1
    /\ (pc = "error" /\ env = "readonly") => fs = fs0

C2_Witness ==
    /\ pc = "error"
    /\ env = "readonly"
    /\ fs0[OutputName] = Absent
    /\ fs[OutputName] = Absent

\* C3 as stated: every invocation that has ended has written one file and
\* printed one line.
C3_Original ==
    pc \in {"done", "error"} =>
        /\ Count(trace[run], {"save", "save failed"}) = 1
        /\ Len(out[run]) = 1

\* C3 as amended: an invocation that ends normally has written AppIcon.png
\* once and printed the one confirmation line; an invocation whose write
\* fails has made that one attempt and printed nothing; no invocation makes a
\* second write, touches another file or prints another line.
C3_Effects ==
    /\ pc = "done" =>
          /\ Count(trace[run], {"save"}) = 1
          /\ out[run] = <<Message>>
    /\ pc = "error" =>
          /\ Count(trace[run], {"save failed"}) = 1
          /\ out[run] = <<>>
    /\ \A i \in Runs :
          /\ Count(trace[i], {"save", "save failed"}) <= 1
          /\ Len(out[i]) <= 1
          /\ \A j \in 1 .. Len(out[i]) : out[i][j] = Message
    /\ \A n \in FileNames \ {OutputName} : fs[n] = fs0[n]

C3_Witness ==
    /\ pc = "done"
    /\ run = 2
    /\ out[1] = <<>>
    /\ out[2] = <<Message>>

\* C4: any two invocations whose save succeeds write the same file, size and
\* pixels, and print the same line; a save in a writable directory succeeds
\* whether or not AppIcon.png is already there, and leaves the directory with
\* the files it had and the one file AppIcon.png, holding what was written.
C4_Rerun ==
    /\ \A i, j \in Runs :
          /\ (written[i] # Absent /\ written[j] # Absent) => written[i] = written[j]
          /\ (out[i] # <<>> /\ out[j] # <<>>) => out[i] = out[j]
    /\ pc = "error" => env # "ok"
    /\ pc \in {"print", "done"} =>
          /\ written[run] # Absent
          /\ fs[OutputName] = written[run]
          /\ Present(fs) = Present(fs0) \cup {OutputName}

C4_Witness ==
    /\ pc = "done"
    /\ run = 2
    /\ written[1] # Absent
    /\ fs0[OutputName] = written[1]
    /\ fs[OutputName] = written[2]
    /\ img.px = accent_color

\* C5: once the drawing calls are done the pixels at (512,280), (200,650) and
\* (824,650) have the accent colour (80,220,100), on the canvas and in the
\* file that is written.
C5_Vertices ==
    probe \in {<<512, 280>>, <<200, 650>>, <<824, 650>>} =>
        /\ Finished => img.px = <<80, 220, 100>>
        /\ written[run] # Absent => written[run][4] = <<80, 220, 100>>

C5_Witness ==
    /\ pc = "done"
    /\ probe = <<200, 650>>
    /\ img.px = <<80, 220, 100>>

\* the pixel is farther than d from both segments of the chevron and from its
\* three vertices
FarFromChevron(p, d) ==
    /\ ~NearSegment(<<200, 650>>, <<512, 280>>, p, d)
    /\ ~NearSegment(<<512, 280>>, <<824, 650>>, p, d)
    /\ \A v \in {<<200, 650>>, <<512, 280>>, <<824, 650>>} : ~InDisc(v, p, d)

\* C6: at every step, and in the file that is written, a pixel of the canvas
\* farther than 70 + Margin from the chevron's segments and vertices has the
\* background colour (30,32,35).
C6_Background ==
    (InCanvas(<<1024, 1024>>, probe) /\ FarFromChevron(probe, 70 + Margin)) =>
        /\ img # NoImage => img.px = <<30, 32, 35>>
        /\ written[run] # Absent => written[run][4] = <<30, 32, 35>>

C6_Witness ==
    /\ pc = "done"
    /\ probe = <<200 - (70 + Margin + 1), 650>>
    /\ FarFromChevron(probe, 70 + Margin)
    /\ img.px = <<30, 32, 35>>

\* C8: from its allocation on the canvas is 1024 wide and 1024 high, and so
\* is every image that is written.
C8_Dimensions ==
    /\ img # NoImage => (img.w = 1024 /\ img.h = 1024)
    /\ \A i \in Runs : written[i] # Absent => (written[i][2] = 1024 /\ written[i][3] = 1024)
    /\ pc \in {"print", "done"} => (fs[OutputName][2] = 1024 /\ fs[OutputName][3] = 1024)

C8_Witness ==
    /\ pc = "done"
    /\ Len(fs[OutputName]) = 4
    /\ fs[OutputName][2] = 1024
    /\ fs[OutputName][3] = 1024
    /\ img.w = 1024

\* the canvas after the four drawing calls in the order of the program
ProgramOrder ==
    draw_ellipse(draw_ellipse(draw_ellipse(draw_line(Image_new(size, bg_color)), 1), 2), 3)

Drawn(t) == {t[j] : j \in 1 .. Len(t)}

\* C9: the three circles have radius 70 about (200,650), (824,650) and
\* (512,280); a circle call never turns an accent pixel into another colour,
\* a circle call repeated leaves the canvas as it was, and once the three
\* circles are drawn, in whatever order and however often, the canvas is the
\* one the program's order gives.
C9_Step ==
    /\ EllipseBox(1) = <<200 - 70, 650 - 70, 200 + 70, 650 + 70>>
    /\ EllipseBox(2) = <<824 - 70, 650 - 70, 824 + 70, 650 + 70>>
    /\ EllipseBox(3) = <<512 - 70, 280 - 70, 512 + 70, 280 + 70>>
    /\ img.px = accent_color => img'.px = accent_color
    /\ (Len(trace'[run]) > Len(trace[run])
          /\ trace'[run][Len(trace'[run])] \in Drawn(trace[run])) => img' = img
    /\ Drawn(trace'[run]) = {1, 2, 3} => img' = ProgramOrder

C9_Circles == [][C9_Step]_vars

C9_Witness ==
    /\ trace[run] = <<3, 1, 3, 2>>
    /\ ~hit[0]
    /\ hit[3]
    /\ img.px = accent_color

\* C10: a pixel of the canvas is at every step exactly the background colour
\* or exactly the accent colour, and every pixel a drawing call covers lies
\* on the canvas, columns 0..1023 and rows 0..1023.
C10_TwoColours ==
    /\ (img # NoImage /\ InCanvas(<<1024, 1024>>, probe)) =>
          img.px \in {<<30, 32, 35>>, <<80, 220, 100>>}
    /\ painted # {} =>
          (probe[1] \in 0 .. 1023 /\ probe[2] \in 0 .. 1023)
    /\ \A k \in Prims : May(k, probe) =>
          (probe[1] \in 0 .. 1023 /\ probe[2] \in 0 .. 1023)

C10_Witness ==
    /\ pc = "save"
    /\ painted = {0}
    /\ ~Must(0, probe)
    /\ img.px = <<80, 220, 100>>

====
